---- MODULE Spec2Model ----
(***************************************************************************)
(* Lifecycle model of the two ONNX CPU inference backends of               *)
(* Kokoro-FastAPI:                                                         *)
(*   ONNXCPUBackend  (api/src/inference/onnx_cpu.py)                        *)
(*   CPUBackend      (api/src/inference/cpu.py)                             *)
(* One backend instance is modelled; `variant` says which class it is.     *)
(* The inference engine (onnxruntime) and the path resolver are the        *)
(* environment: they are modelled by what the backends can observe of      *)
(* them (a session is created or the constructor raises; a run returns a   *)
(* list of outputs or raises).                                             *)
(***************************************************************************)
EXTENDS Integers, Sequences, FiniteSets, TLC

VARIABLES variant, config, _session, _state, everLoaded, call, pending

vars == <<variant, config, _session, _state, everLoaded, call, pending>>

(***************************************************************************)
(* Bounds of the model.                                                    *)
(***************************************************************************)
\* longest token list handed to generate
MaxLen == 2

\* token ids handed to generate; 0 is also the value a framing sentinel has
TokenIds == {0, 5}

\* speed multipliers handed to generate (1 stands for the default 1.0)
Speeds == {1, 2}

RECURSIVE SeqsUpTo(_, _)
SeqsUpTo(S, n) ==
    IF n = 0 THEN {<<>>}
    ELSE LET shorter == SeqsUpTo(S, n - 1)
         IN  shorter \cup {Append(s, x) : s \in {t \in shorter : Len(t) = n - 1}, x \in S}

TokenLists == SeqsUpTo(TokenIds, MaxLen)

(***************************************************************************)
(* Voice embeddings: a matrix read by row.  Row r (0-based, as in Python)  *)
(* of a fabricated voice holds the content VoiceBase + r, so the row that  *)
(* was read can be told from the style vector that reached the engine.     *)
(* A voice is given by its number of rows.                                 *)
(***************************************************************************)
VoiceRow(r) == 100 + r

\* a voice too short for the longest token list, and one long enough for
\* the framed index as well
VoiceSizes == {MaxLen, MaxLen + 3}

(***************************************************************************)
(* ModelState (imported from .base by onnx_cpu.py).                        *)
(***************************************************************************)
UNINITIALIZED == "UNINITIALIZED"
LOADED == "LOADED"
WARMED_UP == "WARMED_UP"
FAILED == "FAILED"

ModelState == {UNINITIALIZED, LOADED, WARMED_UP, FAILED}

\* self._session = None
None == [path |-> "None"]

(***************************************************************************)
(* Environment: model files on disk and what the engine does with them.    *)
(***************************************************************************)
Paths == {"missing.onnx", "corrupt.onnx", "tokens_audio.onnx",
          "tokens_audio_dur.onnx", "input_ids_audio.onnx"}

\* paths.get_model_path / os.path.exists: does the path resolve to a file
PathResolves(path) == path # "missing.onnx"

\* InferenceSession(...): does the engine accept the graph
EngineAcceptsGraph(path) == path \notin {"missing.onnx", "corrupt.onnx"}

\* the name under which the graph takes its token tensor
TokenInputName(path) ==
    IF path = "input_ids_audio.onnx" THEN "input_ids" ELSE "tokens"

\* the number of outputs the graph produces: (audio) or (audio, durations)
NumOutputs(path) == IF path = "tokens_audio_dur.onnx" THEN 2 ELSE 1

\* the zero-filled style matrix np.zeros((1, 256)) that warmup passes
ZeroStyle == 0

\* the audio the graph computes from its inputs
Audio(tokens_input, style_input, speed_input) ==
    [audio_of |-> <<tokens_input, style_input, speed_input>>]

\* the per-token durations a two-output graph predicts
PredictedDurations(tokens_input) == [i \in 1..Len(tokens_input) |-> 3]

(***************************************************************************)
(* InferenceSession.run(None, inputs).  `inputs` is the dictionary the     *)
(* backend passes; `engine_ok` is the environment's choice whether the     *)
(* run itself succeeds.  The result is [error, outputs].                   *)
(***************************************************************************)
SessionRun(session, inputs, engine_ok) ==
    IF DOMAIN inputs # {TokenInputName(session.path), "style", "speed"}
    THEN [error |-> "InvalidArgument", outputs |-> <<>>]
    ELSE IF ~engine_ok
    THEN [error |-> "RuntimeException", outputs |-> <<>>]
    ELSE LET toks == inputs[TokenInputName(session.path)]
             audio == Audio(toks, inputs.style, inputs.speed)
         IN  [error |-> "",
              outputs |-> IF NumOutputs(session.path) = 2
                          THEN <<audio, PredictedDurations(toks)>>
                          ELSE <<audio>>]

(***************************************************************************)
(* Configuration (ONNXConfig built in __init__ from the settings).         *)
(***************************************************************************)
OptimizationLevels == {"all", "basic", "disabled", "extended"}
ExecutionModes == {"parallel", "sequential", "auto"}
ThreadCounts == {1, 4}
InterOpThreadCounts == {2}

Configs ==
    [optimization_level : OptimizationLevels,
     num_threads : ThreadCounts,
     inter_op_threads : InterOpThreadCounts,
     execution_mode : ExecutionModes,
     memory_pattern : BOOLEAN,
     arena_extend_strategy : {"kNextPowerOfTwo"}]

\* session options whose optimization level falls through to basic and whose
\* two thread counts are exchanged
_create_session_options_slip(cfg) ==
    [graph_optimization_level |->
        IF cfg.optimization_level = "all" THEN "ORT_ENABLE_ALL"
        ELSE IF cfg.optimization_level = "disabled" THEN "ORT_DISABLE_ALL"
        ELSE "ORT_ENABLE_BASIC",
     intra_op_num_threads |-> cfg.inter_op_threads,
     inter_op_num_threads |-> cfg.num_threads,
     execution_mode |->
        IF cfg.execution_mode = "parallel" THEN "ORT_PARALLEL" ELSE "ORT_SEQUENTIAL",
     enable_mem_pattern |-> cfg.memory_pattern]

\* ONNXCPUBackend._create_session_options
_create_session_options(cfg) ==
    [graph_optimization_level |->
        IF cfg.optimization_level = "all" THEN "ORT_ENABLE_ALL"
        ELSE IF cfg.optimization_level = "basic" THEN "ORT_ENABLE_BASIC"
        ELSE "ORT_DISABLE_ALL",
     intra_op_num_threads |-> cfg.num_threads,
     inter_op_num_threads |-> cfg.inter_op_threads,
     execution_mode |->
        IF cfg.execution_mode = "parallel" THEN "ORT_PARALLEL" ELSE "ORT_SEQUENTIAL",
     enable_mem_pattern |-> cfg.memory_pattern]

\* ONNXCPUBackend._create_provider_options
_create_provider_options(cfg) ==
    [CPUExecutionProvider |->
        [arena_extend_strategy |-> cfg.arena_extend_strategy,
         cpu_memory_arena_cfg |-> "cpu:0"]]

\* CPUBackend._create_session_options
CPUBackend_create_session_options(cfg) ==
    [graph_optimization_level |->
        IF cfg.optimization_level = "all" THEN "ORT_ENABLE_ALL"
        ELSE IF cfg.optimization_level = "basic" THEN "ORT_ENABLE_BASIC"
        ELSE "ORT_DISABLE_ALL",
     intra_op_num_threads |-> cfg.num_threads,
     inter_op_num_threads |-> cfg.inter_op_threads,
     execution_mode |->
        IF cfg.execution_mode = "parallel" THEN "ORT_PARALLEL" ELSE "ORT_SEQUENTIAL",
     enable_mem_pattern |-> cfg.memory_pattern]

\* CPUBackend._create_provider_options
CPUBackend_create_provider_options(cfg) ==
    [CPUExecutionProvider |->
        [arena_extend_strategy |-> cfg.arena_extend_strategy,
         cpu_memory_arena_cfg |-> "cpu:0"]]

\* InferenceSession(model_path, sess_options=..., providers=[...],
\* provider_options=[...]): the session object a successful construction gives
InferenceSession(path, options, provider_options) ==
    [path |-> path, sess_options |-> options,
     providers |-> <<"CPUExecutionProvider">>,
     provider_options |-> <<provider_options>>]

(***************************************************************************)
(* The record of the last call made on the backend: what was called, what  *)
(* it raised, what it returned, and the engine runs it issued.             *)
(***************************************************************************)
NoCall ==
    [op |-> "init", tokens |-> <<>>, error |-> "", cause |-> "",
     ret |-> <<>>, runs |-> <<>>, result |-> <<>>, state_before |-> UNINITIALIZED]

(***************************************************************************)
(* A generate call that has passed its readiness guard and has not yet     *)
(* reached its try block, when calls on the backend are not serialized:    *)
(* its arguments and the session and state the guard saw.                  *)
(***************************************************************************)
NoPending == [at |-> "idle"]

(***************************************************************************)
(* State queries.                                                          *)
(***************************************************************************)
\* the stored state reported without looking at the session
state_unmasked == _state

\* ONNXCPUBackend.state: the reported lifecycle state
state == IF _session = None THEN UNINITIALIZED ELSE _state

\* BaseModelBackend.is_ready (api/src/inference/base.py): generation is
\* permitted only when the state is loaded or warmed_up
is_ready == state \in {LOADED, WARMED_UP}

\* BaseModelBackend.is_loaded as ONNXCPUBackend.warmup uses it: the state is
\* exactly loaded
is_loaded == state = LOADED

\* BaseModelBackend.is_loaded as CPUBackend uses it (the variant without a
\* lifecycle enumeration): a session is held
CPUBackend_is_loaded == _session # None

(***************************************************************************)
(* ONNXCPUBackend.generate.                                                *)
(***************************************************************************)
\* the row index of the framed convention, used with unframed tokens
style_row_framed(tokens) == Len(tokens) + 2

\* the row of `voice` read for the style vector: voice[len(tokens)]
style_row(tokens) == Len(tokens)

\* the token tensor: np.array([tokens], dtype=np.int64), one row
tokens_tensor(tokens) == <<tokens>>

\* the value generate returns from the engine's output list: result[0]
generate_return(result) == <<result[1]>>

\* the try block of generate: prepare the inputs, run the session once,
\* return; every exception becomes "Generation failed"
generate_try(tokens, voice_rows, speed, engine_ok) ==
    LET failed(cause, runs) ==
            [error |-> "Generation failed", cause |-> cause, ret |-> <<>>,
             runs |-> runs, result |-> <<>>]
        inputs == [tokens |-> tokens_tensor(tokens),
                   style |-> VoiceRow(style_row(tokens)),
                   speed |-> speed]
    IN  IF style_row(tokens) >= voice_rows
        THEN failed("IndexError", <<>>)
        ELSE IF _session = None
        THEN failed("AttributeError", <<>>)
        ELSE LET r == SessionRun(_session, inputs, engine_ok)
             IN  IF r.error # ""
                 THEN failed(r.error, <<inputs>>)
                 ELSE [error |-> "", cause |-> "", ret |-> generate_return(r.outputs),
                       runs |-> <<inputs>>, result |-> r.outputs]

\* generate without its readiness guard
generate_call_unguarded(tokens, voice_rows, speed, engine_ok) ==
    generate_try(tokens, voice_rows, speed, engine_ok)

\* generate guarded by the presence of a session instead of the lifecycle state
generate_call_session_guard(tokens, voice_rows, speed, engine_ok) ==
    IF _session = None
    THEN [error |-> "Model not ready for inference", cause |-> "", ret |-> <<>>,
          runs |-> <<>>, result |-> <<>>]
    ELSE generate_try(tokens, voice_rows, speed, engine_ok)

\* the whole call: the readiness guard, then the try block
generate_call(tokens, voice_rows, speed, engine_ok) ==
    IF ~is_ready
    THEN [error |-> "Model not ready for inference", cause |-> "", ret |-> <<>>,
          runs |-> <<>>, result |-> <<>>]
    ELSE generate_try(tokens, voice_rows, speed, engine_ok)

CallRecord(op, tokens, r) ==
    [op |-> op, tokens |-> tokens, error |-> r.error, cause |-> r.cause,
     ret |-> r.ret, runs |-> r.runs, result |-> r.result, state_before |-> state]

\* generate that marks the backend failed when the call raises
generate_failure_invalidates(tokens, voice_rows, speed, engine_ok) ==
    /\ variant = "onnx_cpu"
    /\ LET r == generate_call(tokens, voice_rows, speed, engine_ok)
       IN  /\ call' = CallRecord("generate", tokens, r)
           /\ _state' = IF r.error # "" THEN FAILED ELSE _state
    /\ UNCHANGED <<pending, variant, config, _session, everLoaded>>

generate(tokens, voice_rows, speed, engine_ok) ==
    /\ variant = "onnx_cpu"
    /\ call' = CallRecord("generate", tokens,
                          generate_call(tokens, voice_rows, speed, engine_ok))
    /\ UNCHANGED <<pending, variant, config, _session, _state, everLoaded>>

(***************************************************************************)
(* ONNXCPUBackend.load_model.                                              *)
(***************************************************************************)
\* what the try block of load_model does for `path`: the cause of the
\* exception it catches ("" when the session was constructed)
load_failure(path) ==
    IF ~PathResolves(path) THEN "PathError"
    ELSE IF ~EngineAcceptsGraph(path) THEN "InvalidGraph"
    ELSE ""

\* load_model that drops the held session when the load fails
load_model_clears_on_failure(path) ==
    /\ variant = "onnx_cpu"
    /\ LET cause == load_failure(path)
       IN  IF cause = ""
           THEN /\ _session' = InferenceSession(path,
                                    _create_session_options(config),
                                    _create_provider_options(config))
                /\ _state' = LOADED
                /\ everLoaded' = TRUE
                /\ call' = CallRecord("load_model", <<>>,
                              [error |-> "", cause |-> "", ret |-> <<>>,
                               runs |-> <<>>, result |-> <<>>])
           ELSE /\ _state' = FAILED
                /\ _session' = None
                /\ call' = CallRecord("load_model", <<>>,
                              [error |-> "Failed to load ONNX model", cause |-> cause,
                               ret |-> <<>>, runs |-> <<>>, result |-> <<>>])
                /\ UNCHANGED everLoaded
    /\ UNCHANGED <<pending, variant, config>>

\* load_model that assigns the session without recording the state loaded
load_model_state_unrecorded(path) ==
    /\ variant = "onnx_cpu"
    /\ LET cause == load_failure(path)
       IN  IF cause = ""
           THEN /\ _session' = InferenceSession(path,
                                    _create_session_options(config),
                                    _create_provider_options(config))
                /\ everLoaded' = TRUE
                /\ call' = CallRecord("load_model", <<>>,
                              [error |-> "", cause |-> "", ret |-> <<>>,
                               runs |-> <<>>, result |-> <<>>])
                /\ UNCHANGED _state
           ELSE /\ _state' = FAILED
                /\ call' = CallRecord("load_model", <<>>,
                              [error |-> "Failed to load ONNX model", cause |-> cause,
                               ret |-> <<>>, runs |-> <<>>, result |-> <<>>])
                /\ UNCHANGED <<_session, everLoaded>>
    /\ UNCHANGED <<pending, variant, config>>

load_model(path) ==
    /\ variant = "onnx_cpu"
    /\ LET cause == load_failure(path)
       IN  IF cause = ""
           THEN /\ _session' = InferenceSession(path,
                                    _create_session_options(config),
                                    _create_provider_options(config))
                /\ _state' = LOADED
                /\ everLoaded' = TRUE
                /\ call' = CallRecord("load_model", <<>>,
                              [error |-> "", cause |-> "", ret |-> <<>>,
                               runs |-> <<>>, result |-> <<>>])
           ELSE /\ _state' = FAILED
                /\ call' = CallRecord("load_model", <<>>,
                              [error |-> "Failed to load ONNX model", cause |-> cause,
                               ret |-> <<>>, runs |-> <<>>, result |-> <<>>])
                /\ UNCHANGED <<_session, everLoaded>>
    /\ UNCHANGED <<pending, variant, config>>

(***************************************************************************)
(* ONNXCPUBackend.warmup.                                                  *)
(***************************************************************************)
\* the dummy inputs of the warmup run
warmup_inputs ==
    [tokens |-> <<(<<1, 2, 3>>)>>, style |-> ZeroStyle, speed |-> 1]

\* a warmup try block whose except clause raises without recording the failure
warmup_try_failure_unrecorded(engine_ok) ==
    LET r == IF _session = None
             THEN [error |-> "AttributeError", outputs |-> <<>>]
             ELSE SessionRun(_session, warmup_inputs, engine_ok)
        runs == IF _session = None THEN <<>> ELSE <<warmup_inputs>>
    IN  IF r.error = ""
        THEN [error |-> "", cause |-> "", ret |-> <<>>, runs |-> runs,
              result |-> r.outputs, new_state |-> WARMED_UP]
        ELSE [error |-> "Model warmup failed", cause |-> r.error, ret |-> <<>>,
              runs |-> runs, result |-> <<>>, new_state |-> _state]

\* the try block of warmup: one run with the dummy inputs; the lifecycle
\* state it leaves is WARMED_UP, or FAILED when anything raised
warmup_try(engine_ok) ==
    LET r == IF _session = None
             THEN [error |-> "AttributeError", outputs |-> <<>>]
             ELSE SessionRun(_session, warmup_inputs, engine_ok)
        runs == IF _session = None THEN <<>> ELSE <<warmup_inputs>>
    IN  IF r.error = ""
        THEN [error |-> "", cause |-> "", ret |-> <<>>, runs |-> runs,
              result |-> r.outputs, new_state |-> WARMED_UP]
        ELSE [error |-> "Model warmup failed", cause |-> r.error, ret |-> <<>>,
              runs |-> runs, result |-> <<>>, new_state |-> FAILED]

\* warmup without its is_loaded guard
warmup_call_unguarded(engine_ok) == warmup_try(engine_ok)

\* warmup guarded by the presence of a session instead of the state loaded
warmup_call_session_guard(engine_ok) ==
    IF _session = None
    THEN [error |-> "Cannot warmup - model not loaded", cause |-> "", ret |-> <<>>,
          runs |-> <<>>, result |-> <<>>, new_state |-> _state]
    ELSE warmup_try(engine_ok)

\* the whole call: the is_loaded guard, then the try block
warmup_call(engine_ok) ==
    IF ~is_loaded
    THEN [error |-> "Cannot warmup - model not loaded", cause |-> "", ret |-> <<>>,
          runs |-> <<>>, result |-> <<>>, new_state |-> _state]
    ELSE warmup_try(engine_ok)

warmup(engine_ok) ==
    /\ variant = "onnx_cpu"
    /\ LET r == warmup_call(engine_ok)
       IN  /\ _state' = r.new_state
           /\ call' = CallRecord("warmup", <<>>, r)
    /\ UNCHANGED <<pending, variant, config, _session, everLoaded>>

(***************************************************************************)
(* Unload.                                                                 *)
(***************************************************************************)
\* ONNXCPUBackend._cleanup_resources: the session it leaves
_cleanup_resources == None

\* BaseModelBackend.unload (api/src/inference/base.py): releases the
\* resources through _cleanup_resources and raises nothing
unload ==
    /\ variant = "onnx_cpu"
    /\ _session' = _cleanup_resources
    /\ call' = CallRecord("unload", <<>>,
                  [error |-> "", cause |-> "", ret |-> <<>>,
                   runs |-> <<>>, result |-> <<>>])
    /\ UNCHANGED <<pending, variant, config, _state, everLoaded>>

(***************************************************************************)
(* CPUBackend (cpu.py): no lifecycle enumeration; load_model and generate. *)
(***************************************************************************)
\* voice[len(tokens)]
CPUBackend_style_row(tokens) == Len(tokens)

\* np.array([tokens], dtype=np.int64)
CPUBackend_tokens_tensor(tokens) == <<tokens>>

\* result[0]
CPUBackend_generate_return(result) == <<result[1]>>

CPUBackend_generate_try(tokens, voice_rows, speed, engine_ok) ==
    LET failed(cause, runs) ==
            [error |-> "Generation failed", cause |-> cause, ret |-> <<>>,
             runs |-> runs, result |-> <<>>]
        inputs == [tokens |-> CPUBackend_tokens_tensor(tokens),
                   style |-> VoiceRow(CPUBackend_style_row(tokens)),
                   speed |-> speed]
    IN  IF CPUBackend_style_row(tokens) >= voice_rows
        THEN failed("IndexError", <<>>)
        ELSE IF _session = None
        THEN failed("AttributeError", <<>>)
        ELSE LET r == SessionRun(_session, inputs, engine_ok)
             IN  IF r.error # ""
                 THEN failed(r.error, <<inputs>>)
                 ELSE [error |-> "", cause |-> "",
                       ret |-> CPUBackend_generate_return(r.outputs),
                       runs |-> <<inputs>>, result |-> r.outputs]

CPUBackend_generate_call(tokens, voice_rows, speed, engine_ok) ==
    IF ~CPUBackend_is_loaded
    THEN [error |-> "Model not loaded", cause |-> "", ret |-> <<>>,
          runs |-> <<>>, result |-> <<>>]
    ELSE CPUBackend_generate_try(tokens, voice_rows, speed, engine_ok)

CPUBackend_generate(tokens, voice_rows, speed, engine_ok) ==
    /\ variant = "cpu"
    /\ call' = CallRecord("generate", tokens,
                  CPUBackend_generate_call(tokens, voice_rows, speed, engine_ok))
    /\ UNCHANGED <<pending, variant, config, _session, _state, everLoaded>>

\* the cause of the exception CPUBackend.load_model catches ("" when none)
CPUBackend_load_failure(path) ==
    IF ~PathResolves(path) THEN "Model not found"
    ELSE IF ~EngineAcceptsGraph(path) THEN "InvalidGraph"
    ELSE ""

CPUBackend_load_model(path) ==
    /\ variant = "cpu"
    /\ LET cause == CPUBackend_load_failure(path)
       IN  IF cause = ""
           THEN /\ _session' = InferenceSession(path,
                                    CPUBackend_create_session_options(config),
                                    CPUBackend_create_provider_options(config))
                /\ everLoaded' = TRUE
                /\ call' = CallRecord("load_model", <<>>,
                              [error |-> "", cause |-> "", ret |-> <<>>,
                               runs |-> <<>>, result |-> <<>>])
           ELSE /\ call' = CallRecord("load_model", <<>>,
                              [error |-> "Failed to load ONNX model", cause |-> cause,
                               ret |-> <<>>, runs |-> <<>>, result |-> <<>>])
                /\ UNCHANGED <<_session, everLoaded>>
    /\ UNCHANGED <<pending, variant, config, _state>>

(***************************************************************************)
(* The specification: a freshly constructed backend, then any sequence of  *)
(* calls by one caller.                                                    *)
(***************************************************************************)
Init ==
    /\ variant \in {"onnx_cpu", "cpu"}
    /\ config \in Configs
    /\ _session = None
    /\ _state = UNINITIALIZED
    /\ everLoaded = FALSE
    /\ call = NoCall
    /\ pending = NoPending

Next ==
    \/ \E path \in Paths : load_model(path)
    \/ \E engine_ok \in BOOLEAN : warmup(engine_ok)
    \/ \E tokens \in TokenLists, voice_rows \in VoiceSizes, speed \in Speeds,
          engine_ok \in BOOLEAN : generate(tokens, voice_rows, speed, engine_ok)
    \/ unload
    \/ \E path \in Paths : CPUBackend_load_model(path)
    \/ \E tokens \in TokenLists, voice_rows \in VoiceSizes, speed \in Speeds,
          engine_ok \in BOOLEAN :
            CPUBackend_generate(tokens, voice_rows, speed, engine_ok)

Spec == Init /\ [][Next]_vars

(***************************************************************************)
(* Calls that are not serialized.  generate is a plain method with no      *)
(* lock: between its readiness guard (line 91) and the read of             *)
(* self._session in the try block (line 101) any other call on the same    *)
(* backend may run.  generate_check is the guard, generate_run the try     *)
(* block; the other calls are the actions above, which may run between     *)
(* the two.  An unload that has executed `del self._session` but not yet   *)
(* `self._session = None` gives the try block the same AttributeError as   *)
(* one that has finished, so unload stays one step.                        *)
(***************************************************************************)
generate_check(tokens, voice_rows, speed) ==
    /\ variant = "onnx_cpu"
    /\ pending = NoPending
    /\ IF ~is_ready
       THEN /\ call' = CallRecord("generate", tokens,
                          [error |-> "Model not ready for inference", cause |-> "",
                           ret |-> <<>>, runs |-> <<>>, result |-> <<>>])
            /\ UNCHANGED pending
       ELSE /\ pending' = [at |-> "try", tokens |-> tokens, voice_rows |-> voice_rows,
                           speed |-> speed, session |-> _session, state |-> state]
            /\ UNCHANGED call
    /\ UNCHANGED <<variant, config, _session, _state, everLoaded>>

generate_run(engine_ok) ==
    /\ variant = "onnx_cpu"
    /\ pending # NoPending
    /\ call' = [CallRecord("generate", pending.tokens,
                   generate_try(pending.tokens, pending.voice_rows, pending.speed,
                                engine_ok))
                EXCEPT !.state_before = pending.state]
    /\ pending' = NoPending
    /\ UNCHANGED <<variant, config, _session, _state, everLoaded>>

\* the configuration of the backend whose calls are interleaved
ConcurrentConfig ==
    [optimization_level |-> "all", num_threads |-> 4, inter_op_threads |-> 2,
     execution_mode |-> "parallel", memory_pattern |-> TRUE,
     arena_extend_strategy |-> "kNextPowerOfTwo"]

InitConcurrent ==
    /\ variant = "onnx_cpu"
    /\ config = ConcurrentConfig
    /\ _session = None
    /\ _state = UNINITIALIZED
    /\ everLoaded = FALSE
    /\ call = NoCall
    /\ pending = NoPending

\* the speed of the interleaved generate calls: the default, speed = 1.0
DefaultSpeed == {1}

NextConcurrent ==
    \/ \E path \in Paths : load_model(path)
    \/ \E engine_ok \in BOOLEAN : warmup(engine_ok)
    \/ \E tokens \in TokenLists, voice_rows \in VoiceSizes, speed \in DefaultSpeed,
          engine_ok \in BOOLEAN : generate(tokens, voice_rows, speed, engine_ok)
    \/ unload
    \/ \E tokens \in TokenLists, voice_rows \in VoiceSizes, speed \in DefaultSpeed :
          generate_check(tokens, voice_rows, speed)
    \/ \E engine_ok \in BOOLEAN : generate_run(engine_ok)

SpecConcurrent == InitConcurrent /\ [][NextConcurrent]_vars

(***************************************************************************)
(* Properties.                                                             *)
(***************************************************************************)
NotReadyErrors == {"Model not ready for inference", "Model not loaded"}

\* C1: on a backend on which no load_model has ever succeeded, every generate
\* call fails with the explicit not-ready / not-loaded error and issues no
\* engine run; no call at all runs the engine before a load has succeeded.
C1_NoRunBeforeLoad ==
    /\ call.runs # <<>> => everLoaded
    /\ (call.op = "generate" /\ ~everLoaded) =>
          (call.error \in NotReadyErrors /\ call.runs = <<>> /\ call.ret = <<>>)

\* a generate call on an ONNXCPUBackend whose only load_model calls failed
C1_Witness ==
    /\ variant = "onnx_cpu"
    /\ call.op = "generate"
    /\ ~everLoaded
    /\ _state = FAILED

\* C2: an ONNXCPUBackend whose reported state is failed rejects generate with
\* the explicit not-ready error and runs no engine session; a generate call
\* gets past the guard only in the states loaded and warmed_up.
C2_FailedRejectsGenerate ==
    (variant = "onnx_cpu" /\ call.op = "generate") =>
        /\ call.state_before = FAILED =>
              (call.error = "Model not ready for inference" /\ call.runs = <<>>)
        /\ call.error # "Model not ready for inference" =>
              call.state_before \in {LOADED, WARMED_UP}
        /\ call.runs # <<>> => call.state_before \in {LOADED, WARMED_UP}

\* a generate call rejected on a failed backend that still holds a session
C2_Witness ==
    /\ variant = "onnx_cpu"
    /\ call.op = "generate"
    /\ call.state_before = FAILED
    /\ _session # None
    /\ call.error = "Model not ready for inference"

\* C3: every ONNXCPUBackend.load_model call that fails (path resolution or
\* session construction) raises the load error wrapping its cause, and the
\* reported lifecycle state is then failed, whatever the state before.
C3_FailedLoadReportsFailed ==
    (variant = "onnx_cpu" /\ call.op = "load_model" /\ call.error # "") =>
        /\ call.error = "Failed to load ONNX model"
        /\ call.cause # ""
        /\ state = FAILED

\* C4: unload is idempotent.  An unload made while no session is held changes
\* neither the session nor the stored state and raises nothing; after every
\* unload no session is held; and a generate that follows an unload fails
\* with the not-ready error without running the engine, whatever the state
\* before the unload was.
C4_UnloadIdempotent ==
    [][ /\ call'.op = "unload" =>
              (call'.error = "" /\ _session' = None /\ _state' = _state)
        /\ (call'.op = "unload" /\ _session = None) =>
              (_session' = _session /\ state' = state)
        /\ (call.op = "unload" /\ call'.op = "generate") =>
              (call'.error = "Model not ready for inference" /\ call'.runs = <<>>)
      ]_vars

\* a generate call made after a warmed-up backend was unloaded
C4_Witness ==
    /\ variant = "onnx_cpu"
    /\ call.op = "generate"
    /\ _session = None
    /\ _state = WARMED_UP
    /\ call.error = "Model not ready for inference"

\* the engine-visible name of the token tensor in a run
RunHasInput(run, name) == name \in DOMAIN run

\* C5: a generate call that reaches the engine runs first under "tokens";
\* against a graph that takes "tokens" it runs once; against a graph that
\* takes only "input_ids" the rejected first run is followed by exactly one
\* retry under "input_ids"; there is never a third run, and no retry follows
\* any other engine failure.
C5_InputNameFallback ==
    (call.op = "generate" /\ call.runs # <<>>) =>
        /\ RunHasInput(call.runs[1], "tokens")
        /\ Len(call.runs) <= 2
        /\ TokenInputName(_session.path) = "tokens" => Len(call.runs) = 1
        /\ TokenInputName(_session.path) = "input_ids" =>
              (Len(call.runs) = 2 /\ RunHasInput(call.runs[2], "input_ids"))
        /\ call.cause = "RuntimeException" => Len(call.runs) = 1

\* a sequence of n ones
Ones(n) == [i \in 1..n |-> 1]

\* C6: a generate call that succeeds returns (audio, durations): with one
\* engine output, that output and len(tokens) + 2 ones; with two engine
\* outputs, the first and the second.
C6_DurationsReturned ==
    (call.op = "generate" /\ call.error = "") =>
        /\ Len(call.ret) = 2
        /\ call.ret[1] = call.result[1]
        /\ Len(call.result) = 1 => call.ret[2] = Ones(Len(call.tokens) + 2)
        /\ Len(call.result) = 2 => call.ret[2] = call.result[2]

\* the token list framed by a leading and a trailing zero sentinel
Framed(tokens) == <<0>> \o tokens \o <<0>>

\* C7: in every engine run of a generate call with L tokens, the style vector
\* is the voice row that matches the framing of the token tensor: row L + 2
\* with framed tokens, row L with unframed tokens.
C7_StyleRowMatchesFraming ==
    call.op = "generate" =>
        \A i \in 1..Len(call.runs) :
            LET run == call.runs[i]
                L == Len(call.tokens)
            IN  \/ /\ run.tokens = <<Framed(call.tokens)>>
                   /\ run.style = VoiceRow(L + 2)
                \/ /\ run.tokens = <<call.tokens>>
                   /\ run.style = VoiceRow(L)

\* a generate call with the longest token list that reached the engine
C7_Witness ==
    /\ call.op = "generate"
    /\ Len(call.tokens) = MaxLen
    /\ call.tokens[1] # 0
    /\ Len(call.runs) = 1

\* C8: the session options of every session built from a configuration are
\* the three-way mapping of optimization_level, the two-way mapping of
\* execution_mode, and the thread counts and memory-pattern flag unchanged;
\* a value outside the named ones is mapped, not rejected.
C8_SessionOptionsMapping ==
    /\ (call.op = "load_model" /\ call.error # "") =>
          call.cause \in {"PathError", "Model not found", "InvalidGraph"}
    /\ _session # None =>
          LET o == _session.sess_options
          IN  /\ config.optimization_level = "all" =>
                    o.graph_optimization_level = "ORT_ENABLE_ALL"
              /\ config.optimization_level = "basic" =>
                    o.graph_optimization_level = "ORT_ENABLE_BASIC"
              /\ config.optimization_level \notin {"all", "basic"} =>
                    o.graph_optimization_level = "ORT_DISABLE_ALL"
              /\ config.execution_mode = "parallel" => o.execution_mode = "ORT_PARALLEL"
              /\ config.execution_mode # "parallel" => o.execution_mode = "ORT_SEQUENTIAL"
              /\ o.intra_op_num_threads = config.num_threads
              /\ o.inter_op_num_threads = config.inter_op_threads
              /\ o.enable_mem_pattern = config.memory_pattern

\* a session built from a configuration whose optimization level and
\* execution mode are both outside the named values
C8_Witness ==
    /\ _session # None
    /\ config.optimization_level = "extended"
    /\ config.execution_mode = "auto"
    /\ call.op = "load_model"

\* C9: a warmup call made in any reported state other than loaded fails with
\* the not-loaded error, runs no engine inference and leaves the state as it
\* was.
C9_WarmupRequiresLoaded ==
    (variant = "onnx_cpu" /\ call.op = "warmup" /\ call.state_before # LOADED) =>
        /\ call.error = "Cannot warmup - model not loaded"
        /\ call.runs = <<>>
        /\ state = call.state_before

\* a warmup call rejected on a failed backend that still holds a session
C9_Witness ==
    /\ variant = "onnx_cpu"
    /\ call.op = "warmup"
    /\ call.state_before = FAILED
    /\ _session # None
    /\ call.error = "Cannot warmup - model not loaded"

LifecycleCalls == {"load_model", "warmup", "generate"}

\* C10 as stated: a load_model, warmup or generate call changes the reported
\* state only along uninitialized -> loaded (successful load), loaded ->
\* warmed_up (successful warmup) and any -> failed.
C10_OnlyForwardTransitions ==
    [][ (variant = "onnx_cpu" /\ call'.op \in LifecycleCalls) =>
            \/ state' = state
            \/ /\ state = UNINITIALIZED /\ state' = LOADED
               /\ call'.op = "load_model" /\ call'.error = ""
            \/ /\ state = LOADED /\ state' = WARMED_UP
               /\ call'.op = "warmup" /\ call'.error = ""
            \/ /\ state' = FAILED
               /\ call'.error # ""
      ]_vars

\* C10 amended: a load_model, warmup or generate call changes the reported
\* state only along any -> loaded (successful load_model, a reload included),
\* loaded -> warmed_up (successful warmup) and any -> failed (load_model or
\* warmup raised); no step moves the state from failed to warmed_up, and
\* generate never changes it.
C10_TransitionsWithReload ==
    [][ (variant = "onnx_cpu" /\ call'.op \in LifecycleCalls) =>
            \/ state' = state
            \/ /\ state' = LOADED
               /\ call'.op = "load_model" /\ call'.error = ""
            \/ /\ state = LOADED /\ state' = WARMED_UP
               /\ call'.op = "warmup" /\ call'.error = ""
            \/ /\ state' = FAILED
               /\ call'.op \in {"load_model", "warmup"} /\ call'.error # ""
      ]_vars

\* a successful load_model on a failed backend that still held a session
C10_Witness ==
    /\ variant = "onnx_cpu"
    /\ call.op = "load_model"
    /\ call.error = ""
    /\ call.state_before = FAILED
    /\ state = LOADED

GenerationErrors ==
    {"Generation failed", "Model not ready for inference", "Model not loaded"}

\* C11: a generate call that fails, at the guard or anywhere in its try
\* block, raises one of the generation errors and leaves the stored state,
\* the reported state and the held session exactly as they were; a backend
\* that was loaded or warmed_up is still so afterwards.
C11_FailedGenerateChangesNothing ==
    [][ (call'.op = "generate" /\ call'.error # "") =>
            /\ call'.error \in GenerationErrors
            /\ call'.ret = <<>>
            /\ _session' = _session
            /\ _state' = _state
            /\ state' = state
            /\ is_ready => is_ready'
      ]_vars

\* a generate call that raised in its try block on a warmed-up backend, which
\* is warmed_up still
C11_Witness ==
    /\ variant = "onnx_cpu"
    /\ call.op = "generate"
    /\ call.error = "Generation failed"
    /\ call.state_before = WARMED_UP
    /\ state = WARMED_UP

\* C12: a warmup call made in the reported state loaded issues exactly one
\* engine run, with tokens [1, 2, 3], a zero style vector and speed 1.0; then
\* either nothing was raised and the reported state is warmed_up, or the
\* warmup error was raised and the reported state is failed.
C12_WarmupOneRunThenWarmedOrFailed ==
    (variant = "onnx_cpu" /\ call.op = "warmup" /\ call.state_before = LOADED) =>
        /\ Len(call.runs) = 1
        /\ call.runs[1] = [tokens |-> <<(<<1, 2, 3>>)>>, style |-> 0, speed |-> 1]
        /\ \/ call.error = "" /\ state = WARMED_UP
           \/ /\ call.error = "Model warmup failed"
              /\ call.cause # ""
              /\ state = FAILED

\* a warmup call whose engine run raised on a loaded backend
C12_Witness ==
    /\ variant = "onnx_cpu"
    /\ call.op = "warmup"
    /\ call.state_before = LOADED
    /\ call.error = "Model warmup failed"
    /\ Len(call.runs) = 1
    /\ state = FAILED

\* C14: a load_model call that fails leaves the session reference as it was
\* (absent on a fresh backend, the earlier session on a reload); a session
\* comes to be held only by a load_model call that raised nothing; and every
\* session held is one the engine constructed in full.
C14_SessionAssignedOnlyBySuccessfulLoad ==
    [][ /\ (call'.op = "load_model" /\ call'.error # "") => _session' = _session
        /\ (_session' # _session /\ _session' # None) =>
              (call'.op = "load_model" /\ call'.error = "")
        /\ _session' # None =>
              (PathResolves(_session'.path) /\ EngineAcceptsGraph(_session'.path))
      ]_vars

\* a reload that failed on a backend which still holds its earlier session
C14_Witness ==
    /\ call.op = "load_model"
    /\ call.error = "Failed to load ONNX model"
    /\ call.cause = "InvalidGraph"
    /\ _session # None

\* C15: in every reachable state of an ONNXCPUBackend the reported state is
\* uninitialized exactly when no session is held, whatever the stored state
\* is; with a session held it is loaded, warmed_up or failed.
C15_UninitializedIffNoSession ==
    variant = "onnx_cpu" =>
        /\ state = UNINITIALIZED <=> _session = None
        /\ _session # None => state \in {LOADED, WARMED_UP, FAILED}

\* no session is held after a cleanup while the stored state is still
\* warmed_up
C15_Witness ==
    /\ variant = "onnx_cpu"
    /\ call.op = "unload"
    /\ _session = None
    /\ _state = WARMED_UP
    /\ state = UNINITIALIZED

\* C13: when calls are not serialized, a generate that has passed its
\* readiness guard can reach its engine run with no session, and only
\* because the session the guard saw was released in between; a generate
\* whose guard and try block run with nothing in between never does.
C13_NoSessionRunOnlyByInterleaving ==
    [][ /\ (pending # NoPending /\ pending' = NoPending
                /\ call'.cause = "AttributeError") =>
              /\ pending.session # None
              /\ pending.state \in {LOADED, WARMED_UP}
              /\ _session = None
              /\ call'.error = "Generation failed"
              /\ call'.runs = <<>>
        /\ (pending' = pending /\ call'.op = "generate") =>
              call'.cause # "AttributeError"
      ]_vars

\* a generate that passed the guard on a loaded backend and found no session
\* at its engine run
C13_Witness ==
    /\ call.op = "generate"
    /\ call.state_before = LOADED
    /\ call.cause = "AttributeError"
    /\ _session = None
    /\ pending = NoPending

====
